---- MODULE Spec2Model ----
(***************************************************************************)
(* The texturing pipeline of src/software/pipeline/main_texturing.cpp:     *)
(* main() as a sequential state machine.  pc is main's position; every     *)
(* call main makes is one action.  The collaborators main calls (scene     *)
(* and mesh I/O, resolver, remapper, unwrapper, subdivider, exporter,      *)
(* texture generator) are operators that give the set of outcomes of one   *)
(* call: a result, or a raised error.                                      *)
(***************************************************************************)
EXTENDS Integers, Sequences, FiniteSets, TLC

VARIABLES
    pc,            \* position of main()
    exitCode,      \* how the process ended: "none" while it runs
    argv,          \* the command line handed to main
    files,         \* the output folder: whether it exists, what was written
    inputMesh,     \* history: the mesh file as loadFromOBJ read it
    unwrapMethod,  \* local std::string unwrapMethod             (line 54)
    texParams,     \* local mesh::TexturingParams texParams      (line 53)
    outputTextureFileType, \* local, set at line 157
    sfmData,       \* local sfmData::SfMData                     (line 163)
    mp,            \* local mvsUtils::MultiViewParams            (line 171)
    mesh,          \* local mesh::Texturing mesh                 (line 173)
    refMesh,       \* local mesh::Mesh refMesh                   (line 188)
    it,            \* iterator of the loop over the landmarks    (line 194)
    thr,           \* the two subdivision thresholds             (lines 224-225)
    calls,         \* history: the stages invoked, in order
    returned,      \* history: the stages that returned normally, in order
    remapLog,      \* history: the arguments of every remapVisibilities call
    branch         \* history: the branches taken at the test of hasUVs()

vars == <<pc, exitCode, argv, files, inputMesh, unwrapMethod, texParams,
          outputTextureFileType, sfmData, mp, mesh, refMesh, it, thr,
          calls, returned, remapLog, branch>>

----------------------------------------------------------------------------
(* Bounds of the model.                                                    *)

MaxLandmarks == 2
MaxPts == 1

(* Widths and factors of the program.                                      *)

INT_MAX == 2147483647
MaxPtsFactor == 100
EdgeLengthDivisor == 10

(* The smallest vertex count whose hundredfold exceeds INT_MAX.            *)
OverflowPts == (INT_MAX \div MaxPtsFactor) + 1

LandmarkIds == 1..MaxLandmarks
(* Two view identifiers and two view indices: enough for a view the        *)
(* resolver does not know and for two views that share an index.           *)
ViewIds == {1, 2}
ViewIndices == {0, 1}

----------------------------------------------------------------------------
(* Inputs: command lines, scene files, mesh files.                         *)

VisibilityRemappingNames == {"Pull", "Push", "PullPush"}
UnwrapNames == {"Basic", "LSCM", "ABF"}
ColorspaceNames == {"sRGB", "Linear"}
FileTypeNames == {"png", "jpg", "exr"}

DefaultLine ==
    [argc1 |-> FALSE, wellFormed |-> TRUE, help |-> FALSE, required |-> TRUE,
     visibilityRemappingMethod |-> "PullPush", unwrapMethod |-> "Basic",
     processColorspace |-> "sRGB", outputTextureFileType |-> "png",
     correctEV |-> FALSE]

(* The command lines tried: the default one and the ones that differ from  *)
(* it in one option, or in two that interact.                              *)
CommandLines ==
    { DefaultLine,
      [DefaultLine EXCEPT !.argc1 = TRUE, !.required = FALSE],
      [DefaultLine EXCEPT !.help = TRUE],
      [DefaultLine EXCEPT !.help = TRUE, !.required = FALSE],
      [DefaultLine EXCEPT !.wellFormed = FALSE],
      [DefaultLine EXCEPT !.required = FALSE],
      [DefaultLine EXCEPT !.visibilityRemappingMethod = "Pull", !.correctEV = TRUE],
      [DefaultLine EXCEPT !.visibilityRemappingMethod = "Nearest"],
      [DefaultLine EXCEPT !.unwrapMethod = "Conformal"],
      [DefaultLine EXCEPT !.processColorspace = "AdobeRGB"],
      [DefaultLine EXCEPT !.outputTextureFileType = "bmp"],
      [DefaultLine EXCEPT !.outputTextureFileType = "bmp", !.required = FALSE] }

EmptyFcn == [x \in {} |-> x]

(* The resolvers tried: any set of known views, numbered from 0 with an    *)
(* index below the identifier, so that two views may share index 0.        *)
Resolvers ==
    { v \in UNION { [D -> ViewIndices] : D \in SUBSET ViewIds } :
        \A id \in DOMAIN v : v[id] < id }

(* A scene file: unreadable, or landmarks (identifier -> the view          *)
(* identifiers that observe it) and views (view identifier -> view index). *)
Scenes ==
    { [readable |-> r, landmarks |-> l, views |-> v] :
        r \in {TRUE},
        l \in UNION { [D -> SUBSET ViewIds] : D \in SUBSET LandmarkIds },
        v \in Resolvers }
    \cup { [readable |-> FALSE, landmarks |-> EmptyFcn, views |-> EmptyFcn] }

(* A mesh file: vertex and triangle counts, whether it carries UVs, and    *)
(* its average edge length in hundredths (0 for a mesh without triangles). *)
MeshSizes == (0..MaxPts) \cup {OverflowPts}

MeshFiles ==
    { f \in { [readable |-> TRUE, pts |-> p, tris |-> t, uvs |-> u,
                avgEdge |-> IF t = 0 THEN 0 ELSE 200] :
                 p \in MeshSizes, t \in {0, 1}, u \in BOOLEAN } :
        f.tris <= f.pts }
    \cup { [readable |-> FALSE, pts |-> 0, tris |-> 0, uvs |-> FALSE, avgEdge |-> 0] }

(* The output folder before the run: present or absent, nothing written.   *)
OutputFolders ==
    { [dir |-> d, existed |-> d, texturedMesh |-> FALSE, textures |-> FALSE] :
          d \in BOOLEAN }

----------------------------------------------------------------------------
(* Pure helpers.                                                           *)

RECURSIVE InOrder(_)
(* The elements of a finite set of integers as an ascending sequence: the  *)
(* iteration order of a map keyed by them.                                 *)
InOrder(S) ==
    IF S = {} THEN <<>>
    ELSE LET m == CHOOSE x \in S : \A y \in S : x <= y
         IN  <<m>> \o InOrder(S \ {m})

Range(f) == { f[x] : x \in DOMAIN f }

Limb == 2^16

(* static_cast<int>(n * 100): the product is taken in size_t and cut to    *)
(* the low 32 bits, read as two's complement.  Computed on 16-bit limbs.   *)
StaticCastIntTimes(n, k) ==
    LET lo == (n % Limb) * k
        hi == ((n \div Limb) * k + (lo \div Limb)) % Limb
    IN  IF hi >= Limb \div 2
        THEN (hi - Limb) * Limb + (lo % Limb)
        ELSE hi * Limb + (lo % Limb)

----------------------------------------------------------------------------
(* The collaborators main() calls.  Each gives what one call can do.       *)

(* Enum names to enum values; an unknown name raises std::out_of_range.    *)
EVisibilityRemappingMethod_stringToEnum(name) ==
    IF name \in VisibilityRemappingNames
    THEN [raised |-> FALSE, value |-> "EVisibilityRemappingMethod::" \o name]
    ELSE [raised |-> TRUE, value |-> "invalid"]

EImageColorSpace_stringToEnum(name) ==
    IF name \in ColorspaceNames
    THEN [raised |-> FALSE, value |-> "EImageColorSpace::" \o name]
    ELSE [raised |-> TRUE, value |-> "invalid"]

EImageFileType_stringToEnum(name) ==
    IF name \in FileTypeNames
    THEN [raised |-> FALSE, value |-> "EImageFileType::" \o name]
    ELSE [raised |-> TRUE, value |-> "invalid"]

EUnwrapMethod_stringToEnum(name) ==
    IF name \in UnwrapNames
    THEN [raised |-> FALSE, value |-> "EUnwrapMethod::" \o name]
    ELSE [raised |-> TRUE, value |-> "invalid"]

(* MultiViewParams::getIndexFromViewId: the index of a known view; a view  *)
(* the parameter set does not hold raises.                                 *)
KnowsView(params, viewId) == viewId \in DOMAIN params
getIndexFromViewId(params, viewId) == params[viewId]

(* Texturing::hasUVs.                                                      *)
hasUVs(m) == m.uvs

(* Mesh::computeAverageEdgeLength, in hundredths.                          *)
computeAverageEdgeLength(m) == m.avgEdge

(* The view indices a set of reference points carries.                     *)
ViewsOf(ref, S) == UNION { Range(ref.pointsVisibilities[i]) : i \in S }

(* Texturing::remapVisibilities: the meshes one call can leave.  Every     *)
(* vertex gets one visibility set; an empty mesh or an empty reference     *)
(* cloud leaves them all empty.  Pull copies from the nearest reference    *)
(* point of each vertex; Push unions every reference point into the        *)
(* vertices of its nearest triangle; PullPush unions the two.              *)
remapVisibilities(method, ref, m) ==
    LET n     == Len(ref.pts)
        pulls == IF m.pts = 0 \/ n = 0 THEN { {} }
                 ELSE { ViewsOf(ref, S) : S \in (SUBSET (1..n)) \ { {} } }
        push  == IF m.pts = 0 \/ m.tris = 0 \/ n = 0 THEN {} ELSE ViewsOf(ref, 1..n)
        views == CASE method = "EVisibilityRemappingMethod::Pull" -> pulls
                   [] method = "EVisibilityRemappingMethod::Push" -> { push }
                   [] OTHER -> { v \cup push : v \in pulls }
    IN  { [m EXCEPT !.nbVis = m.pts, !.views = v] : v \in views }

(* Texturing::unwrap: assigns UV coordinates and atlases.                  *)
unwrap(m) == [m EXCEPT !.uvs = TRUE, !.atlasTris = m.tris]

(* Mesh::subdivideMeshMaxEdgeLengthUpdatePtsCams: splits the triangles     *)
(* with an edge above the threshold, up to the point budget.  A mesh       *)
(* without triangles is left as it is.  Each split adds a vertex and a     *)
(* triangle; the visibility list is extended for the new vertices or left  *)
(* for the next remap.                                                     *)
subdivide(m, edgeThr, maxPts) ==
    LET grown == { q \in {m.pts, m.pts + 1, maxPts} : m.pts <= q /\ q <= maxPts }
        sizes == IF m.tris = 0 \/ m.avgEdge <= edgeThr THEN {m.pts}
                 ELSE grown \cup {m.pts}
    IN  UNION { { [m EXCEPT !.pts = q, !.tris = m.tris + (q - m.pts), !.nbVis = v] :
                    v \in {m.nbVis, q} } : q \in sizes }

(* Texturing::updateAtlases: the atlases cover the current triangles.      *)
updateAtlases(m) == [m EXCEPT !.atlasTris = m.tris]

----------------------------------------------------------------------------
(* main(): the initial state.                                              *)

NoMesh ==
    [loaded |-> FALSE, pts |-> 0, tris |-> 0, uvs |-> FALSE, avgEdge |-> 0,
     nbVis |-> 0, views |-> {}, atlasTris |-> 0,
     texParams |-> [visibilityRemappingMethod |-> "default",
                    processColorspace |-> "default", correctEV |-> "default"]]

NoRefMesh == [pts |-> <<>>, pointsVisibilities |-> <<>>]

Init ==
    /\ pc = "parse"
    /\ exitCode = "none"
    /\ argv \in CommandLines
    /\ files \in OutputFolders
    /\ inputMesh = [readable |-> FALSE, pts |-> 0, tris |-> 0, uvs |-> FALSE,
                    avgEdge |-> 0]
    /\ unwrapMethod = "Basic"
    /\ texParams = NoMesh.texParams
    /\ outputTextureFileType = "unset"
    /\ sfmData = [landmarks |-> EmptyFcn, views |-> EmptyFcn]
    /\ mp = EmptyFcn
    /\ mesh = NoMesh
    /\ refMesh = NoRefMesh
    /\ it = 0
    /\ thr = [set |-> FALSE, edge |-> 0, maxPts |-> 0]
    /\ calls = <<>>
    /\ returned = <<>>
    /\ remapLog = <<>>
    /\ branch = <<>>

----------------------------------------------------------------------------
(* main(): control flow.                                                   *)

(* return <code> from main.                                                *)
Return(code) ==
    /\ pc' = "exited"
    /\ exitCode' = code

(* Variant of Throw: the exception is swallowed and main goes on.          *)
ThrowSwallowed(next) ==
    /\ pc' = next
    /\ exitCode' = exitCode

(* An exception leaves a call made outside the try block of lines 123-146: *)
(* nothing in main catches it, the process ends in std::terminate.  next   *)
(* is the statement after the call, which is not reached.                  *)
Throw(next) ==
    /\ pc' = "exited"
    /\ exitCode' = "terminate"

(* The statement that follows each statement of the straight-line code.    *)
MainFlow(p) ==
    CASE p = "config"           -> "Load"
      [] p = "Load"             -> "init"
      [] p = "init"             -> "loadFromOBJ"
      [] p = "loadFromOBJ"      -> "create_directory"
      [] p = "create_directory" -> "refMesh"
      [] p = "refMesh"          -> "build"
      [] p = "build"            -> "remap1"
      [] p = "remap1"           -> "hasUVs"
      [] p = "unwrap"           -> "saveAsOBJ"
      [] p = "thresholds"       -> "subdivide"
      [] p = "subdivide"        -> "updateAtlases"
      [] p = "updateAtlases"    -> "remap2"
      [] p = "remap2"           -> "saveAsOBJ"
      [] p = "saveAsOBJ"        -> "generateTextures"
      [] p = "generateTextures" -> "return"

(* Variants of Successor: textures before the export; no second remap;     *)
(* the second remap before the atlas update; the second remap before the   *)
(* subdivision.                                                            *)
SuccessorTexturesFirst(p) ==
    CASE p = "unwrap"           -> "generateTextures"
      [] p = "remap2"           -> "generateTextures"
      [] p = "generateTextures" -> "saveAsOBJ"
      [] p = "saveAsOBJ"        -> "return"
      [] OTHER                  -> MainFlow(p)

SuccessorNoReRemap(p) ==
    IF p = "updateAtlases" THEN "saveAsOBJ" ELSE MainFlow(p)

SuccessorRemapThenAtlases(p) ==
    CASE p = "subdivide"     -> "remap2"
      [] p = "remap2"        -> "updateAtlases"
      [] p = "updateAtlases" -> "saveAsOBJ"
      [] OTHER               -> MainFlow(p)

SuccessorRemapThenSubdivide(p) ==
    CASE p = "thresholds"    -> "remap2"
      [] p = "remap2"        -> "subdivide"
      [] p = "updateAtlases" -> "saveAsOBJ"
      [] OTHER               -> MainFlow(p)

Successor(p) == MainFlow(p)

(* Variant of Branch: the test inverted.                                   *)
BranchInverted(m) == IF hasUVs(m) THEN "unwrap" ELSE "thresholds"

(* if(!mesh.hasUVs()) ... else ...                                         *)
Branch(m) == IF ~hasUVs(m) THEN "unwrap" ELSE "thresholds"

----------------------------------------------------------------------------
(* main(): one action per statement that calls out or branches.            *)

(* vm.count("help"): no option named help is declared at lines 57-119, so  *)
(* the count is 0 for every command line, and --help is an unknown option. *)
HelpCount(line) == 0

(* Variant of ParseCommandLine: po::notify, which checks the required       *)
(* options, runs before the test of argc.                                  *)
ParseCommandLineNotifyFirst ==
    /\ pc = "parse"
    /\ IF ~argv.wellFormed \/ argv.help
       THEN Return("EXIT_FAILURE") /\ UNCHANGED unwrapMethod
       ELSE IF ~argv.required
       THEN Return("EXIT_FAILURE") /\ UNCHANGED unwrapMethod
       ELSE IF HelpCount(argv) > 0 \/ argv.argc1
       THEN Return("EXIT_SUCCESS") /\ UNCHANGED unwrapMethod
       ELSE /\ pc' = "config"
            /\ exitCode' = exitCode
            /\ unwrapMethod' = argv.unwrapMethod
    /\ UNCHANGED <<argv, files, inputMesh, texParams, outputTextureFileType,
                   sfmData, mp, mesh, refMesh, it, thr, calls, returned, remapLog, branch>>

(* Lines 123-146: parse, the usage request, the required options.          *)
ParseCommandLine ==
    /\ pc = "parse"
    /\ IF ~argv.wellFormed \/ argv.help
       THEN Return("EXIT_FAILURE") /\ UNCHANGED unwrapMethod
       ELSE IF HelpCount(argv) > 0 \/ argv.argc1
       THEN Return("EXIT_SUCCESS") /\ UNCHANGED unwrapMethod
       ELSE IF ~argv.required
       THEN Return("EXIT_FAILURE") /\ UNCHANGED unwrapMethod
       ELSE /\ pc' = "config"
            /\ exitCode' = exitCode
            /\ unwrapMethod' = argv.unwrapMethod
    /\ UNCHANGED <<argv, files, inputMesh, texParams, outputTextureFileType,
                   sfmData, mp, mesh, refMesh, it, thr, calls, returned, remapLog, branch>>

(* Lines 148-160: the option strings become enum values, one after the     *)
(* other; the first unknown name raises.                                   *)
Configure ==
    /\ pc = "config"
    /\ LET r  == EVisibilityRemappingMethod_stringToEnum(argv.visibilityRemappingMethod)
           c  == EImageColorSpace_stringToEnum(argv.processColorspace)
           f  == EImageFileType_stringToEnum(argv.outputTextureFileType)
           ev == IF argv.correctEV THEN "APPLY_CORRECTION" ELSE "NO_CORRECTION"
       IN  IF r.raised
           THEN /\ Throw(Successor("config"))
                /\ UNCHANGED <<texParams, outputTextureFileType>>
           ELSE IF c.raised
           THEN /\ Throw(Successor("config"))
                /\ texParams' = [texParams EXCEPT !.visibilityRemappingMethod = r.value]
                /\ UNCHANGED outputTextureFileType
           ELSE IF f.raised
           THEN /\ Throw(Successor("config"))
                /\ texParams' = [texParams EXCEPT !.visibilityRemappingMethod = r.value,
                                                  !.processColorspace = c.value]
                /\ UNCHANGED outputTextureFileType
           ELSE /\ pc' = Successor("config")
                /\ exitCode' = exitCode
                /\ texParams' = [visibilityRemappingMethod |-> r.value,
                                 processColorspace |-> c.value,
                                 correctEV |-> ev]
                /\ outputTextureFileType' = f.value
    /\ UNCHANGED <<argv, files, inputMesh, unwrapMethod, sfmData, mp, mesh,
                   refMesh, it, thr, calls, returned, remapLog, branch>>

(* Variant of LoadSfMData: the result of sfmDataIO::Load is not tested.     *)
LoadSfMDataUnchecked ==
    /\ pc = "Load"
    /\ calls' = Append(calls, "Load")
    /\ \E scene \in Scenes :
         /\ IF scene.readable
            THEN /\ sfmData' = [landmarks |-> scene.landmarks, views |-> scene.views]
                 /\ returned' = Append(returned, "Load")
            ELSE UNCHANGED <<sfmData, returned>>
         /\ pc' = Successor("Load")
         /\ exitCode' = exitCode
    /\ UNCHANGED <<argv, files, inputMesh, unwrapMethod, texParams,
                   outputTextureFileType, mp, mesh, refMesh, it, thr, remapLog, branch>>

(* Lines 163-168: sfmDataIO::Load; false ends the run with EXIT_FAILURE.   *)
LoadSfMData ==
    /\ pc = "Load"
    /\ calls' = Append(calls, "Load")
    /\ \E scene \in Scenes :
         IF scene.readable
         THEN /\ sfmData' = [landmarks |-> scene.landmarks, views |-> scene.views]
              /\ returned' = Append(returned, "Load")
              /\ pc' = Successor("Load")
              /\ exitCode' = exitCode
         ELSE /\ Return("EXIT_FAILURE")
              /\ UNCHANGED <<sfmData, returned>>
    /\ UNCHANGED <<argv, files, inputMesh, unwrapMethod, texParams,
                   outputTextureFileType, mp, mesh, refMesh, it, thr, remapLog, branch>>

(* Variant of Initialization: the texturing mesh keeps the parameters it    *)
(* was constructed with.                                                   *)
InitializationOwnParams ==
    /\ pc = "init"
    /\ mp' = sfmData.views
    /\ mesh' = NoMesh
    /\ pc' = Successor("init")
    /\ UNCHANGED <<exitCode, argv, files, inputMesh, unwrapMethod, texParams,
                   outputTextureFileType, sfmData, refMesh, it, thr, calls,
                   returned, remapLog, branch>>

(* Lines 171-174: the resolver of the scene's views; the texturing mesh    *)
(* gets a copy of the parameters.                                          *)
Initialization ==
    /\ pc = "init"
    /\ mp' = sfmData.views
    /\ mesh' = [NoMesh EXCEPT !.texParams = texParams]
    /\ pc' = Successor("init")
    /\ UNCHANGED <<exitCode, argv, files, inputMesh, unwrapMethod, texParams,
                   outputTextureFileType, sfmData, refMesh, it, thr, calls,
                   returned, remapLog, branch>>

(* Lines 178-181: mesh.clear(); mesh.loadFromOBJ(inputMeshFilepath, ...).  *)
LoadFromOBJ ==
    /\ pc = "loadFromOBJ"
    /\ calls' = Append(calls, "loadFromOBJ")
    /\ \E f \in MeshFiles :
         IF f.readable
         THEN /\ mesh' = [mesh EXCEPT !.loaded = TRUE, !.pts = f.pts, !.tris = f.tris,
                                      !.uvs = f.uvs, !.avgEdge = f.avgEdge,
                                      !.nbVis = 0, !.views = {},
                                      !.atlasTris = IF f.uvs THEN f.tris ELSE 0]
              /\ inputMesh' = f
              /\ returned' = Append(returned, "loadFromOBJ")
              /\ pc' = Successor("loadFromOBJ")
              /\ exitCode' = exitCode
         ELSE /\ Throw(Successor("loadFromOBJ"))
              /\ UNCHANGED <<mesh, inputMesh, returned>>
    /\ UNCHANGED <<argv, files, unwrapMethod, texParams, outputTextureFileType,
                   sfmData, mp, refMesh, it, thr, remapLog, branch>>

(* Variant of CreateDirectory: a folder that is already there is an error,  *)
(* as when the false that create_directory returns for it is taken for a   *)
(* failure.                                                                *)
CreateDirectoryExclusive ==
    /\ pc = "create_directory"
    /\ calls' = Append(calls, "create_directory")
    /\ \/ /\ ~files.dir
          /\ files' = [files EXCEPT !.dir = TRUE]
          /\ returned' = Append(returned, "create_directory")
          /\ pc' = Successor("create_directory")
          /\ exitCode' = exitCode
       \/ /\ Throw(Successor("create_directory"))
          /\ UNCHANGED <<files, returned>>
    /\ UNCHANGED <<argv, inputMesh, unwrapMethod, texParams, outputTextureFileType,
                   sfmData, mp, mesh, refMesh, it, thr, remapLog, branch>>

(* Line 184: fs::create_directory(outputFolder): nothing to do when the    *)
(* folder exists; otherwise it is created, or the call raises.             *)
CreateDirectory ==
    /\ pc = "create_directory"
    /\ calls' = Append(calls, "create_directory")
    /\ \/ /\ files' = [files EXCEPT !.dir = TRUE]
          /\ returned' = Append(returned, "create_directory")
          /\ pc' = Successor("create_directory")
          /\ exitCode' = exitCode
       \/ /\ ~files.dir
          /\ Throw(Successor("create_directory"))
          /\ UNCHANGED <<files, returned>>
    /\ UNCHANGED <<argv, inputMesh, unwrapMethod, texParams, outputTextureFileType,
                   sfmData, mp, mesh, refMesh, it, thr, remapLog, branch>>

(* Lines 188-192: the empty reference mesh.                                *)
DeclareRefMesh ==
    /\ pc = "refMesh"
    /\ refMesh' = NoRefMesh
    /\ it' = 1
    /\ calls' = Append(calls, "build")
    /\ pc' = Successor("refMesh")
    /\ UNCHANGED <<exitCode, argv, files, inputMesh, unwrapMethod, texParams,
                   outputTextureFileType, sfmData, mp, mesh, thr, returned, remapLog, branch>>

(* The landmarks in the iteration order of sfmData.getLandmarks().         *)
LandmarkOrder(data) == InOrder(DOMAIN data.landmarks)

(* Variant of PointVisibilityOf: a view the resolver does not know is      *)
(* left out.                                                               *)
PointVisibilityOfKnown(params, observations) ==
    LET ids   == InOrder(observations)
        known == SelectSeq(ids, LAMBDA v : KnowsView(params, v))
    IN  [raised |-> FALSE,
         value |-> [i \in 1..Len(known) |-> getIndexFromViewId(params, known[i])]]

(* Lines 197-201: the visibility of one landmark: one index per            *)
(* observation, in the order of the observations; raises at the first      *)
(* view the resolver does not know.                                        *)
PointVisibilityOf(params, observations) ==
    LET ids == InOrder(observations)
    IN  IF \E i \in 1..Len(ids) : ~KnowsView(params, ids[i])
        THEN [raised |-> TRUE, value |-> <<>>]
        ELSE [raised |-> FALSE,
              value |-> [i \in 1..Len(ids) |-> getIndexFromViewId(params, ids[i])]]

(* Variant of PushLandmark: a landmark nobody observes is left out.        *)
PushLandmarkObserved(ref, id, pointVisibility) ==
    IF pointVisibility = <<>> THEN ref
    ELSE [pts |-> Append(ref.pts, [X |-> id]),
          pointsVisibilities |-> Append(ref.pointsVisibilities, pointVisibility)]

(* Lines 203-204: one point and its visibility appended to the cloud.      *)
PushLandmark(ref, id, pointVisibility) ==
    [pts |-> Append(ref.pts, [X |-> id]),
     pointsVisibilities |-> Append(ref.pointsVisibilities, pointVisibility)]

(* Lines 194-205: one iteration of the loop over the landmarks.            *)
BuildStep ==
    /\ pc = "build"
    /\ it <= Len(LandmarkOrder(sfmData))
    /\ LET id == LandmarkOrder(sfmData)[it]
           pv == PointVisibilityOf(mp, sfmData.landmarks[id])
       IN  IF pv.raised
           THEN /\ Throw("build")
                /\ UNCHANGED <<refMesh, it>>
           ELSE /\ refMesh' = PushLandmark(refMesh, id, pv.value)
                /\ it' = it + 1
                /\ UNCHANGED <<pc, exitCode>>
    /\ UNCHANGED <<argv, files, inputMesh, unwrapMethod, texParams,
                   outputTextureFileType, sfmData, mp, mesh, thr, calls, returned,
                   remapLog, branch>>

(* Variant of BuildEnd: an empty reference cloud is refused.                *)
BuildEndRejectsEmpty ==
    /\ pc = "build"
    /\ it > Len(LandmarkOrder(sfmData))
    /\ IF refMesh.pts = <<>>
       THEN Return("EXIT_FAILURE") /\ UNCHANGED returned
       ELSE /\ returned' = Append(returned, "build")
            /\ pc' = Successor("build")
            /\ exitCode' = exitCode
    /\ UNCHANGED <<argv, files, inputMesh, unwrapMethod, texParams,
                   outputTextureFileType, sfmData, mp, mesh, refMesh, it, thr,
                   calls, remapLog, branch>>

(* Line 194: the loop ends after the last landmark.                        *)
BuildEnd ==
    /\ pc = "build"
    /\ it > Len(LandmarkOrder(sfmData))
    /\ returned' = Append(returned, "build")
    /\ pc' = Successor("build")
    /\ UNCHANGED <<exitCode, argv, files, inputMesh, unwrapMethod, texParams,
                   outputTextureFileType, sfmData, mp, mesh, refMesh, it, thr,
                   calls, remapLog, branch>>

(* mesh.remapVisibilities(texParams.visibilityRemappingMethod, refMesh),   *)
(* at the statement at.                                                    *)
RemapAt(at) ==
    /\ pc = at
    /\ calls' = Append(calls, "remapVisibilities")
    /\ remapLog' = Append(remapLog, [method |-> texParams.visibilityRemappingMethod,
                                     refMesh |-> refMesh])
    /\ \/ /\ \E m \in remapVisibilities(texParams.visibilityRemappingMethod, refMesh, mesh) :
                 mesh' = m
          /\ returned' = Append(returned, "remapVisibilities")
          /\ pc' = Successor(at)
          /\ exitCode' = exitCode
       \/ /\ Throw(Successor(at))
          /\ UNCHANGED <<mesh, returned>>
    /\ UNCHANGED <<argv, files, inputMesh, unwrapMethod, texParams,
                   outputTextureFileType, sfmData, mp, refMesh, it, thr, branch>>

(* Line 207.                                                               *)
Remap1 == RemapAt("remap1")

(* Lines 210 and 218: the branch on mesh.hasUVs().                         *)
Decide ==
    /\ pc = "hasUVs"
    /\ pc' = Branch(mesh)
    /\ branch' = Append(branch, Branch(mesh))
    /\ UNCHANGED <<exitCode, argv, files, inputMesh, unwrapMethod, texParams,
                   outputTextureFileType, sfmData, mp, mesh, refMesh, it, thr,
                   calls, returned, remapLog>>

(* Lines 212-214: the unwrap method is converted first, then unwrap runs.  *)
Unwrap ==
    /\ pc = "unwrap"
    /\ IF EUnwrapMethod_stringToEnum(unwrapMethod).raised
       THEN /\ Throw(Successor("unwrap"))
            /\ UNCHANGED <<mesh, calls, returned>>
       ELSE /\ calls' = Append(calls, "unwrap")
            /\ \/ /\ mesh' = unwrap(mesh)
                  /\ returned' = Append(returned, "unwrap")
                  /\ pc' = Successor("unwrap")
                  /\ exitCode' = exitCode
               \/ /\ Throw(Successor("unwrap"))
                  /\ UNCHANGED <<mesh, returned>>
    /\ UNCHANGED <<argv, files, inputMesh, unwrapMethod, texParams,
                   outputTextureFileType, sfmData, mp, refMesh, it, thr, remapLog, branch>>

(* Lines 224-225: the two thresholds, from the mesh as it is now.          *)
Thresholds ==
    /\ pc = "thresholds"
    /\ thr' = [set |-> TRUE,
               edge |-> computeAverageEdgeLength(mesh) \div EdgeLengthDivisor,
               maxPts |-> StaticCastIntTimes(mesh.pts, MaxPtsFactor)]
    /\ pc' = Successor("thresholds")
    /\ UNCHANGED <<exitCode, argv, files, inputMesh, unwrapMethod, texParams,
                   outputTextureFileType, sfmData, mp, mesh, refMesh, it, calls,
                   returned, remapLog, branch>>

(* Variant of Subdivide: the subdivider is handed refVisibilities, the     *)
(* alias of line 189, and extends the reference cloud's list instead of    *)
(* the mesh's.                                                             *)
SubdivideRefVisibilities ==
    /\ pc = "subdivide"
    /\ calls' = Append(calls, "subdivide")
    /\ \/ /\ \E m \in subdivide(mesh, thr.edge, thr.maxPts) :
                 /\ mesh' = [m EXCEPT !.nbVis = mesh.nbVis]
                 /\ refMesh' = [refMesh EXCEPT !.pointsVisibilities =
                                   IF m.pts > mesh.pts THEN Append(@, <<>>) ELSE @]
          /\ returned' = Append(returned, "subdivide")
          /\ pc' = Successor("subdivide")
          /\ exitCode' = exitCode
       \/ /\ Throw(Successor("subdivide"))
          /\ UNCHANGED <<mesh, refMesh, returned>>
    /\ UNCHANGED <<argv, files, inputMesh, unwrapMethod, texParams,
                   outputTextureFileType, sfmData, mp, it, thr, remapLog, branch>>

(* Line 227.                                                               *)
Subdivide ==
    /\ pc = "subdivide"
    /\ calls' = Append(calls, "subdivide")
    /\ \/ /\ \E m \in subdivide(mesh, thr.edge, thr.maxPts) : mesh' = m
          /\ returned' = Append(returned, "subdivide")
          /\ pc' = Successor("subdivide")
          /\ exitCode' = exitCode
       \/ /\ Throw(Successor("subdivide"))
          /\ UNCHANGED <<mesh, returned>>
    /\ UNCHANGED <<argv, files, inputMesh, unwrapMethod, texParams,
                   outputTextureFileType, sfmData, mp, refMesh, it, thr, remapLog, branch>>

(* Line 228.                                                               *)
UpdateAtlases ==
    /\ pc = "updateAtlases"
    /\ calls' = Append(calls, "updateAtlases")
    /\ mesh' = updateAtlases(mesh)
    /\ returned' = Append(returned, "updateAtlases")
    /\ pc' = Successor("updateAtlases")
    /\ UNCHANGED <<exitCode, argv, files, inputMesh, unwrapMethod, texParams,
                   outputTextureFileType, sfmData, mp, refMesh, it, thr, remapLog, branch>>

(* Line 234.                                                               *)
Remap2 == RemapAt("remap2")

(* Line 238: the mesh file is written, or the call raises.                 *)
SaveAsOBJ ==
    /\ pc = "saveAsOBJ"
    /\ calls' = Append(calls, "saveAsOBJ")
    /\ \/ /\ files' = [files EXCEPT !.texturedMesh = TRUE]
          /\ returned' = Append(returned, "saveAsOBJ")
          /\ pc' = Successor("saveAsOBJ")
          /\ exitCode' = exitCode
       \/ /\ Throw(Successor("saveAsOBJ"))
          /\ UNCHANGED <<files, returned>>
    /\ UNCHANGED <<argv, inputMesh, unwrapMethod, texParams, outputTextureFileType,
                   sfmData, mp, mesh, refMesh, it, thr, remapLog, branch>>

(* Line 242: the textures are written, or the call raises.                 *)
GenerateTextures ==
    /\ pc = "generateTextures"
    /\ calls' = Append(calls, "generateTextures")
    /\ \/ /\ files' = [files EXCEPT !.textures = TRUE]
          /\ returned' = Append(returned, "generateTextures")
          /\ pc' = Successor("generateTextures")
          /\ exitCode' = exitCode
       \/ /\ Throw(Successor("generateTextures"))
          /\ UNCHANGED <<files, returned>>
    /\ UNCHANGED <<argv, inputMesh, unwrapMethod, texParams, outputTextureFileType,
                   sfmData, mp, mesh, refMesh, it, thr, remapLog, branch>>

(* Lines 244-245: return EXIT_SUCCESS.                                     *)
Finish ==
    /\ pc = "return"
    /\ Return("EXIT_SUCCESS")
    /\ UNCHANGED <<argv, files, inputMesh, unwrapMethod, texParams,
                   outputTextureFileType, sfmData, mp, mesh, refMesh, it, thr,
                   calls, returned, remapLog, branch>>

Next ==
    \/ ParseCommandLine
    \/ Configure
    \/ LoadSfMData
    \/ Initialization
    \/ LoadFromOBJ
    \/ CreateDirectory
    \/ DeclareRefMesh
    \/ BuildStep
    \/ BuildEnd
    \/ Remap1
    \/ Decide
    \/ Unwrap
    \/ Thresholds
    \/ Subdivide
    \/ UpdateAtlases
    \/ Remap2
    \/ SaveAsOBJ
    \/ GenerateTextures
    \/ Finish

Spec == Init /\ [][Next]_vars

----------------------------------------------------------------------------
(* Vocabulary of the properties.                                           *)

Count(seq, x) == Cardinality({ i \in DOMAIN seq : seq[i] = x })

Called(stage) == \E i \in DOMAIN calls : calls[i] = stage
Returned(stage) == \E i \in DOMAIN returned : returned[i] = stage

IsPrefix(a, b) == Len(a) <= Len(b) /\ \A i \in DOMAIN a : a[i] = b[i]

(* The run went through every statement of main and returned at line 245.  *)
Completed == pc = "exited" /\ exitCode = "EXIT_SUCCESS" /\ ~argv.argc1

SubdivisionBranch == {"thresholds", "subdivide", "updateAtlases", "remap2"}

----------------------------------------------------------------------------
(* C1: in every run that reaches the test of hasUVs(), exactly one branch  *)
(* is entered, once: the unwrap branch iff the mesh as loaded had no UVs,  *)
(* the subdivision branch iff it had; unwrap and subdivision are never     *)
(* both performed, and a run that reaches the export performed one.        *)
C1_OneBranchByLoadedUVs ==
    /\ Len(branch) <= 1
    /\ branch # <<>> =>
          /\ inputMesh.readable
          /\ (branch[1] = "unwrap") <=> ~inputMesh.uvs
          /\ (branch[1] = "thresholds") <=> inputMesh.uvs
    /\ Count(calls, "unwrap") + Count(calls, "subdivide") <= 1
    /\ Called("unwrap") => branch = <<"unwrap">>
    /\ Called("subdivide") => branch = <<"thresholds">>
    /\ pc = "unwrap" => branch = <<"unwrap">>
    /\ pc \in SubdivisionBranch => branch = <<"thresholds">>
    /\ Called("saveAsOBJ") =>
          /\ Len(branch) = 1
          /\ Returned("unwrap") <=> ~inputMesh.uvs
          /\ Returned("subdivide") <=> inputMesh.uvs

C1_Witness ==
    /\ Completed
    /\ inputMesh.uvs
    /\ branch = <<"thresholds">>
    /\ Returned("subdivide")
    /\ ~Called("unwrap")

----------------------------------------------------------------------------
(* C2: the stages are invoked in the fixed order scene load, mesh load,    *)
(* output folder, reference cloud, first remap, UV/subdivision decision,   *)
(* export, textures; a stage is invoked only when every stage before it    *)
(* has returned; a completed run went through all of them.                 *)
StageOrder ==
    <<"Load", "loadFromOBJ", "create_directory", "build", "remapVisibilities",
      "decision", "saveAsOBJ", "generateTextures">>

DecisionRank == CHOOSE r \in DOMAIN StageOrder : StageOrder[r] = "decision"

(* The place in StageOrder of the i-th call: what runs between the first   *)
(* remap and the export belongs to the decision.                           *)
Rank(i) ==
    IF \/ calls[i] \in {"unwrap", "subdivide", "updateAtlases"}
       \/ /\ calls[i] = "remapVisibilities"
          /\ \E j \in 1..(i - 1) : calls[j] = "remapVisibilities"
    THEN DecisionRank
    ELSE CHOOSE r \in DOMAIN StageOrder : StageOrder[r] = calls[i]

C2_FixedStageOrder ==
    /\ \A i \in DOMAIN calls :
          /\ i = 1 => Rank(i) = 1
          /\ i > 1 => \/ Rank(i) = Rank(i - 1) + 1
                      \/ Rank(i) = DecisionRank /\ Rank(i - 1) = DecisionRank
    /\ IsPrefix(returned, calls)
    /\ Len(calls) <= Len(returned) + 1
    /\ Called("saveAsOBJ") => branch # <<>>
    /\ Called("generateTextures") => Returned("saveAsOBJ")
    /\ Completed =>
          /\ returned = calls
          /\ \A r \in DOMAIN StageOrder : \E i \in DOMAIN calls : Rank(i) = r

C2_Witness ==
    /\ Completed
    /\ Returned("unwrap")
    /\ Returned("generateTextures")

----------------------------------------------------------------------------
(* C3: a completed run invoked the visibility remap exactly twice when the *)
(* mesh was loaded with UVs (before the branch and after the subdivision)  *)
(* and exactly once when it was loaded without (before the branch, none    *)
(* after the unwrap).                                                      *)
Remaps == Count(calls, "remapVisibilities")

C3_RemapCount ==
    /\ Remaps <= 2
    /\ branch # <<>> => Remaps >= 1
    /\ branch = <<"unwrap">> => Remaps = 1
    /\ pc \in {"thresholds", "subdivide", "updateAtlases"} => Remaps = 1
    /\ Remaps = 2 => Returned("subdivide")
    /\ Completed => Remaps = IF inputMesh.uvs THEN 2 ELSE 1

C3_Witness ==
    /\ Completed
    /\ inputMesh.uvs
    /\ Remaps = 2

----------------------------------------------------------------------------
(* The calls made before the i-th one.                                     *)
Before(i) == SubSeq(calls, 1, i - 1)

(* C4, as the specification orders the subdivision branch: thresholds,     *)
(* subdivider, second remap, and only then the atlas update.               *)
C4_RemapBeforeAtlases ==
    \A i \in DOMAIN calls :
        calls[i] = "updateAtlases" =>
            /\ Count(Before(i), "subdivide") = 1
            /\ Count(Before(i), "remapVisibilities") = 2

(* C4, as the code orders it: the thresholds are taken from the mesh as it *)
(* is before the subdivision, then the subdivider runs, then the atlases   *)
(* are updated, and only then the remap runs again, on the reference cloud *)
(* of the first remap.                                                     *)
C4_AtlasesBeforeRemap ==
    /\ \A i \in DOMAIN calls :
          /\ calls[i] = "subdivide" =>
                /\ thr.set
                /\ thr.edge = inputMesh.avgEdge \div EdgeLengthDivisor
                /\ thr.maxPts = StaticCastIntTimes(inputMesh.pts, MaxPtsFactor)
                /\ Count(Before(i), "remapVisibilities") = 1
          /\ calls[i] = "updateAtlases" =>
                /\ Count(Before(i), "subdivide") = 1
                /\ Count(Before(i), "remapVisibilities") = 1
                /\ Returned("subdivide")
          /\ (calls[i] = "remapVisibilities" /\ Count(Before(i), "remapVisibilities") = 1) =>
                /\ Count(Before(i), "subdivide") = 1
                /\ Count(Before(i), "updateAtlases") = 1
                /\ Returned("updateAtlases")
    /\ Len(remapLog) = 2 => remapLog[2].refMesh = remapLog[1].refMesh
    /\ pc \in {"thresholds", "subdivide"} =>
          mesh.pts = inputMesh.pts /\ mesh.avgEdge = inputMesh.avgEdge

C4_Witness ==
    /\ Completed
    /\ Returned("subdivide")
    /\ Returned("updateAtlases")
    /\ Len(remapLog) = 2
    /\ mesh.pts > inputMesh.pts

----------------------------------------------------------------------------
(* C5: when a stage fails, the run is over: no later stage is invoked, the *)
(* failed stage is not invoked again, and what was written stays: when the *)
(* texture generation fails the exported mesh is still there.              *)
LastCall == calls[Len(calls)]

(* The last stage invoked has not returned.                                *)
Pending == Len(calls) > Len(returned)

C5_FailureEndsTheRun ==
    /\ IsPrefix(returned, calls)
    /\ Len(calls) <= Len(returned) + 1
    /\ Pending => \/ pc = "exited" /\ exitCode \in {"EXIT_FAILURE", "terminate"}
                  \/ pc = "build" /\ LastCall = "build"
    /\ \A st \in {"Load", "loadFromOBJ", "create_directory", "build", "unwrap",
                  "subdivide", "updateAtlases", "saveAsOBJ", "generateTextures"} :
          Count(calls, st) <= 1
    /\ Count(calls, "remapVisibilities") <= 2
    /\ Returned("create_directory") => files.dir
    /\ Returned("saveAsOBJ") => files.texturedMesh
    /\ (Pending /\ LastCall = "generateTextures") =>
          /\ files.texturedMesh
          /\ ~files.textures

C5_Witness ==
    /\ pc = "exited"
    /\ Pending
    /\ LastCall = "generateTextures"
    /\ files.texturedMesh
    /\ exitCode = "terminate"

----------------------------------------------------------------------------
(* C6: a run ends with exit code 0 or 1; 0 only after all stages have      *)
(* completed (or on the usage request of an empty command line); 1 for a   *)
(* parse error, a missing required option, an unreadable scene file and    *)
(* every stage failure.                                                    *)
C6_ExitCodeZeroOrOne ==
    pc = "exited" =>
        /\ exitCode \in {"EXIT_SUCCESS", "EXIT_FAILURE"}
        /\ (exitCode = "EXIT_SUCCESS" /\ ~argv.argc1) => Returned("generateTextures")
        /\ (~argv.wellFormed \/ (~argv.required /\ ~argv.argc1)) => exitCode = "EXIT_FAILURE"
        /\ Pending => exitCode = "EXIT_FAILURE"

----------------------------------------------------------------------------
(* C7: on a configuration error of a non-empty command line (a required    *)
(* option missing, a malformed line, an unknown name for one of the four   *)
(* enum options) no stage is ever invoked and the exit is not a success.   *)
ConfigurationError(line) ==
    /\ ~line.argc1
    /\ \/ ~line.wellFormed
       \/ ~line.required
       \/ line.visibilityRemappingMethod \notin VisibilityRemappingNames
       \/ line.unwrapMethod \notin UnwrapNames
       \/ line.processColorspace \notin ColorspaceNames
       \/ line.outputTextureFileType \notin FileTypeNames

C7_ConfigurationErrorRunsNoStage ==
    ConfigurationError(argv) =>
        /\ calls = <<>>
        /\ pc = "exited" => exitCode # "EXIT_SUCCESS"

----------------------------------------------------------------------------
(* Some landmark of the loaded scene is observed by a view the resolver    *)
(* does not know.                                                          *)
UnknownViewObserved ==
    \E id \in DOMAIN sfmData.landmarks :
        \E v \in sfmData.landmarks[id] : v \notin DOMAIN sfmData.views

LaterStages ==
    {"remapVisibilities", "unwrap", "subdivide", "updateAtlases", "saveAsOBJ",
     "generateTextures"}

(* Every point of the reference cloud carries one index per observation of *)
(* its landmark.                                                           *)
NoObservationDropped ==
    \A i \in DOMAIN refMesh.pts :
        Len(refMesh.pointsVisibilities[i]) =
            Cardinality(sfmData.landmarks[LandmarkOrder(sfmData)[i]])

(* C8, as claimed: with an observation of an unknown view the run aborts   *)
(* during the reference-cloud build before any mesh mutation, load         *)
(* included, and no later stage runs.                                      *)
C8_AbortBeforeMeshLoad ==
    (UnknownViewObserved /\ Called("build") /\ pc = "exited") =>
        /\ exitCode = "terminate"
        /\ ~Returned("build")
        /\ ~mesh.loaded
        /\ \A st \in LaterStages : ~Called(st)

(* C8, amended: with an observation of an unknown view the run never gets  *)
(* past the reference-cloud build.  A run that reaches the build aborts in *)
(* it, with the mesh loaded and the output folder there, but before any    *)
(* remap, unwrap or subdivision has touched the mesh; the cloud built so   *)
(* far has dropped no observation; no later stage runs and nothing is      *)
(* exported.                                                               *)
C8_AbortInBuildAfterMeshLoad ==
    UnknownViewObserved =>
        /\ ~Returned("build")
        /\ \A st \in LaterStages : ~Called(st)
        /\ NoObservationDropped
        /\ mesh.nbVis = 0 /\ mesh.views = {}
        /\ mesh.uvs = inputMesh.uvs /\ mesh.pts = inputMesh.pts
        /\ ~files.texturedMesh /\ ~files.textures
        /\ (Called("build") /\ pc = "exited") =>
              /\ exitCode = "terminate"
              /\ mesh.loaded
              /\ files.dir
              /\ Len(refMesh.pts) < Cardinality(DOMAIN sfmData.landmarks)

C8_Witness ==
    /\ UnknownViewObserved
    /\ Called("build")
    /\ pc = "exited"
    /\ exitCode = "terminate"
    /\ mesh.loaded
    /\ Len(refMesh.pts) = 1

----------------------------------------------------------------------------
(* C9: the reference cloud the build produces has one point and one        *)
(* visibility per landmark, the i-th of each from the i-th landmark in     *)
(* iteration order; a landmark without observations is there too.          *)
FromLandmark(i) ==
    LET id  == LandmarkOrder(sfmData)[i]
        ids == InOrder(sfmData.landmarks[id])
        pv  == refMesh.pointsVisibilities[i]
    IN  /\ refMesh.pts[i] = [X |-> id]
        /\ Len(pv) = Len(ids)
        /\ \A j \in DOMAIN ids : pv[j] = sfmData.views[ids[j]]

C9_OnePointPerLandmark ==
    /\ Len(refMesh.pts) = Len(refMesh.pointsVisibilities)
    /\ Len(refMesh.pts) <= Cardinality(DOMAIN sfmData.landmarks)
    /\ pc = "build" => Len(refMesh.pts) = it - 1
    /\ \A i \in DOMAIN refMesh.pts : FromLandmark(i)
    /\ Returned("build") =>
          /\ Len(refMesh.pts) = Cardinality(DOMAIN sfmData.landmarks)
          /\ Len(refMesh.pointsVisibilities) = Cardinality(DOMAIN sfmData.landmarks)

C9_Witness ==
    /\ Returned("build")
    /\ Len(refMesh.pts) = MaxLandmarks
    /\ \E i \in DOMAIN refMesh.pts : refMesh.pointsVisibilities[i] = <<>>
    /\ \E i \in DOMAIN refMesh.pts : Len(refMesh.pointsVisibilities[i]) = 2

----------------------------------------------------------------------------
(* C10: when a remap has returned and the next stage is about to start,    *)
(* the mesh has one visibility set per vertex: after the first remap, also *)
(* with an empty mesh or an empty reference cloud, and after the second    *)
(* one with the vertex count the subdivision left; so the export of the    *)
(* subdivision branch starts with as many visibility sets as vertices.     *)
AfterRemap ==
    /\ returned # <<>>
    /\ returned[Len(returned)] = "remapVisibilities"
    /\ ~Pending

----------------------------------------------------------------------------
(* The reference cloud of a scene, as the loop of lines 194-205 builds it  *)
(* when every view is known.                                               *)
NbLandmarks == Cardinality(DOMAIN sfmData.landmarks)

(* C11: the reference cloud is built once and no later stage changes it:   *)
(* every remap call received the cloud as it is now, complete, so the      *)
(* second remap received the cloud of the first, point for point and       *)
(* visibility for visibility; subdivision and atlas update leave it alone. *)
C11_ReferenceCloudReadOnly ==
    /\ Count(calls, "build") <= 1
    /\ Returned("build") =>
          /\ Len(refMesh.pts) = NbLandmarks
          /\ Len(refMesh.pointsVisibilities) = NbLandmarks
    /\ \A i \in DOMAIN remapLog :
          /\ Returned("build")
          /\ remapLog[i].refMesh = refMesh
    /\ Len(remapLog) = 2 =>
          /\ remapLog[2].refMesh.pts = remapLog[1].refMesh.pts
          /\ remapLog[2].refMesh.pointsVisibilities = remapLog[1].refMesh.pointsVisibilities

C11_Witness ==
    /\ Completed
    /\ Len(remapLog) = 2
    /\ Len(refMesh.pts) = MaxLandmarks
    /\ mesh.pts > inputMesh.pts
    /\ Returned("updateAtlases")

(* C12: every landmark's visibility set holds exactly the resolved indices *)
(* of its observations, and no view index twice, whatever the resolver,    *)
(* one that gives two view identifiers the same index included.            *)
C12_NoDuplicateViewIndex ==
    \A i \in DOMAIN refMesh.pts :
        LET pv == refMesh.pointsVisibilities[i]
            id == LandmarkOrder(sfmData)[i]
        IN  /\ Range(pv) = { sfmData.views[v] : v \in sfmData.landmarks[id] }
            /\ \A j, k \in DOMAIN pv : pv[j] = pv[k] => j = k

(* The scene file could not be read: sfmDataIO::Load was called and did    *)
(* not succeed.                                                            *)
LoadError == Called("Load") /\ ~Returned("Load")

(* C13: an unreadable or malformed scene ends the run with exit code 1     *)
(* before anything touches the mesh: it is not loaded, no remap, unwrap or *)
(* subdivision runs, and the output directory, the exported mesh and the   *)
(* textures are not written.                                               *)
C13_LoadErrorBeforeMesh ==
    LoadError =>
        /\ pc = "exited"
        /\ exitCode = "EXIT_FAILURE"
        /\ calls = <<"Load">>
        /\ mesh = NoMesh
        /\ refMesh = NoRefMesh
        /\ remapLog = <<>> /\ branch = <<>>
        /\ files \in OutputFolders

C13_Witness ==
    /\ LoadError
    /\ pc = "exited"
    /\ ~files.dir

(* C14: a successful run leaves the output directory in place with the    *)
(* exported mesh and the textures in it, whether the directory was there   *)
(* before the run or not; creating a directory that exists succeeds and    *)
(* changes nothing.                                                        *)
C14_OutputsUnderOutputFolder ==
    /\ Completed => files.dir /\ files.texturedMesh /\ files.textures
    /\ (files.texturedMesh \/ files.textures) => files.dir
    /\ files.existed => files.dir
    /\ (files.existed /\ Called("create_directory")) => Returned("create_directory")
    /\ Returned("create_directory") => files.dir

C14_Witness ==
    /\ Completed
    /\ files.existed
    /\ files.dir /\ files.texturedMesh /\ files.textures

(* C15: the maximum-points threshold is 100 times the vertex count of the *)
(* mesh as it is before subdivision, for every vertex count: it is never   *)
(* negative and never wraps, and the subdivided mesh has no fewer vertices *)
(* than before and no more than 100 times as many.  (The product is stated *)
(* by its quotient and remainder.)                                         *)
C15_MaxPointsIsHundredfold ==
    /\ thr.set =>
          /\ thr.maxPts >= 0
          /\ thr.maxPts \div MaxPtsFactor = inputMesh.pts
          /\ thr.maxPts % MaxPtsFactor = 0
    /\ Returned("subdivide") =>
          /\ mesh.pts >= inputMesh.pts
          /\ mesh.pts \div MaxPtsFactor <= inputMesh.pts

(* The two degenerate inputs: a scene without landmarks, and a mesh with   *)
(* UV coordinates and no triangle.                                         *)
ZeroLandmarks == Returned("Load") /\ DOMAIN sfmData.landmarks = {}

ZeroTriangles == mesh.loaded /\ inputMesh.uvs /\ inputMesh.tris = 0

(* C16: degenerate inputs are no errors and shorten nothing.  Without      *)
(* landmarks the build ends with an empty cloud, the first remap is still  *)
(* called with it and leaves every vertex an empty visibility set, and the *)
(* branch, the export and the textures follow as in any run.  With a mesh  *)
(* that has UVs and no triangle the subdivision branch is taken with an    *)
(* edge-length threshold of 0, the subdivider splits nothing, and the run  *)
(* goes on to the export.                                                  *)
C16_DegenerateInputsRunThrough ==
    /\ (ZeroLandmarks /\ Called("build")) =>
          /\ refMesh = NoRefMesh
          /\ pc = "exited" => Called("remapVisibilities")
          /\ \A i \in DOMAIN remapLog : remapLog[i].refMesh = NoRefMesh
          /\ Returned("remapVisibilities") => mesh.views = {}
          /\ AfterRemap => mesh.nbVis = mesh.pts
    /\ (ZeroTriangles /\ branch # <<>>) =>
          /\ branch = <<"thresholds">>
          /\ thr.set => thr.edge = 0
          /\ pc = "exited" => Called("subdivide")
          /\ Returned("subdivide") => mesh.pts = inputMesh.pts /\ mesh.tris = 0
    /\ ((ZeroLandmarks \/ ZeroTriangles) /\ Completed) =>
          /\ branch # <<>>
          /\ Returned("saveAsOBJ") /\ Returned("generateTextures")
          /\ files.texturedMesh /\ files.textures

C16_Witness ==
    /\ Completed
    /\ ZeroLandmarks
    /\ ZeroTriangles
    /\ mesh.pts > 0
    /\ Len(remapLog) = 2
    /\ thr.set /\ thr.edge = 0
    /\ files.texturedMesh /\ files.textures

(* The run was asked for nothing: no argument at all, or a help option     *)
(* counted by the parser.                                                  *)
UsageRequested == argv.argc1 \/ HelpCount(argv) > 0

(* C17: invoked without any argument (or with a help request the parser    *)
(* recognises), the program ends with exit code 0 after printing the       *)
(* option description: the required options are not checked, no stage      *)
(* runs, no scene or mesh is loaded and nothing is written.                *)
C17_UsageExitsZero ==
    UsageRequested =>
        /\ pc \in {"parse", "exited"}
        /\ pc = "exited" => exitCode = "EXIT_SUCCESS"
        /\ calls = <<>> /\ returned = <<>>
        /\ sfmData = [landmarks |-> EmptyFcn, views |-> EmptyFcn]
        /\ mesh = NoMesh /\ refMesh = NoRefMesh
        /\ texParams = NoMesh.texParams
        /\ files \in OutputFolders

C17_Witness ==
    /\ argv.argc1
    /\ ~argv.required
    /\ pc = "exited"
    /\ exitCode = "EXIT_SUCCESS"

(* The texturing parameters that the command line selects.                 *)
SelectedParams ==
    [visibilityRemappingMethod |->
         EVisibilityRemappingMethod_stringToEnum(argv.visibilityRemappingMethod).value,
     processColorspace |-> EImageColorSpace_stringToEnum(argv.processColorspace).value,
     correctEV |-> IF argv.correctEV THEN "APPLY_CORRECTION" ELSE "NO_CORRECTION"]

(* C18: the configuration is complete before the first stage and no stage  *)
(* changes it: both remap calls are given the method selected on the       *)
(* command line, and the parameters copied into the texturing mesh before  *)
(* the mesh load already hold the final remapping method, colorspace and   *)
(* exposure correction.                                                    *)
C18_ConfigurationFixed ==
    /\ calls # <<>> =>
          /\ texParams = SelectedParams
          /\ unwrapMethod = argv.unwrapMethod
          /\ outputTextureFileType =
                 EImageFileType_stringToEnum(argv.outputTextureFileType).value
    /\ \A i \in DOMAIN remapLog :
          remapLog[i].method = SelectedParams.visibilityRemappingMethod
    /\ Len(remapLog) = 2 => remapLog[1].method = remapLog[2].method
    /\ (Returned("Load") /\ pc # "init") => mesh.texParams = SelectedParams

C18_Witness ==
    /\ Completed
    /\ Len(remapLog) = 2
    /\ argv.visibilityRemappingMethod = "Pull"
    /\ argv.correctEV
    /\ mesh.texParams = SelectedParams

====
